---- MODULE Spec2Model ----
(***************************************************************************)
(* omniclone.py: the run path of main() for several independent processes  *)
(* of one OS user that share the lock directory, the configuration, the    *)
(* flag data and the filter files.                                         *)
(*                                                                         *)
(* A string is a sequence of tokens ("~/docs" is <<"~", "/", "docs">>), so *)
(* that path expansion and the test for ':' are computed, not tabulated.   *)
(* An argument vector is a sequence of such strings.                       *)
(***************************************************************************)
EXTENDS Integers, Sequences, FiniteSets, TLC

\* Number of processes started by the scheduler or the operator.
NInst == 2

Inst == 1..NInst

\* Exit codes a sync subprocess may return.
ExitCodes == {0, 1}

VARIABLES
    TASKS,        \* CONFIG.get("tasks", {}) as main()'s loops traverse it
    FLAGS_DATA,   \* flags.json
    files,        \* the filter files that exist in SCRIPT_DIR
    IS_SERVICE,   \* per process: --service was given
    LOCK_DIR,     \* 0: the directory is absent; i: it exists, made by process i
    pc,           \* per process: position in main()
    idx,          \* per process: position of the task loop in the flattened TASKS
    pending,      \* per process: the exception the finally block lets through
    exitCode,     \* per process: exit status, -1 while running
    calls,        \* per process: the system operations performed, in order
    launches,     \* per process: the subprocess.Popen calls of run_rclone
    results,      \* per process: what run_subprocess_with_logging gave per task
    log,          \* per process: the LOGGER records emitted, in order
    ARGS,         \* per process: "run", or the --install/--uninstall/--status given
    os_name,      \* os.name
    missing_json, \* per process: the required file load_json() does not find
    service_ops,  \* per process: the commands of the service manager run
    filter_flags, \* per process: the value get_filter_flags() returned last
    process       \* per process: the child of run_subprocess_with_logging()

vars == <<TASKS, FLAGS_DATA, files, IS_SERVICE, LOCK_DIR, pc, idx, pending,
          exitCode, calls, launches, results, log, ARGS, os_name, missing_json,
          service_ops, filter_flags, process>>

----------------------------------------------------------------------------
(* Strings and paths *)

Str(t) == <<t>>

HOME == <<"/", "home", "/", "u">>
CWD == <<"/", "work">>
SCRIPT_DIR == <<"/", "opt", "/", "omniclone">>

\* Path.expanduser(): a leading "~" becomes the home directory.
expanduser(p) ==
    IF Len(p) >= 1 /\ Head(p) = "~" THEN HOME \o Tail(p) ELSE p

\* Path.resolve(): a relative path is made absolute against the working
\* directory; an absolute one is kept.
resolve(p) ==
    IF Len(p) >= 1 /\ Head(p) = "/" THEN p
    ELSE IF Len(p) = 0 THEN CWD
    ELSE CWD \o <<"/">> \o p

\* ":" in s
HasColon(s) == \E k \in 1..Len(s) : s[k] = ":"

\* main(), "Expand paths"
src_path(cfg) == resolve(expanduser(cfg["src"]))

\* The destination is expanded whatever it contains.
dst_path_always_expanded(cfg) == resolve(expanduser(cfg["dst"]))

dst_path(cfg) ==
    IF ~HasColon(cfg["dst"]) THEN resolve(expanduser(cfg["dst"])) ELSE cfg["dst"]

\* dict.get(key, default)
Get(d, key, default) == IF key \in DOMAIN d THEN d[key] ELSE default

----------------------------------------------------------------------------
(* Flags and filters *)

FLAGS_BISYNC == FLAGS_DATA["base"] \o FLAGS_DATA["bisync"]
FLAGS_BACKUP == FLAGS_DATA["base"] \o FLAGS_DATA["backup"]

global_filter(mode) == SCRIPT_DIR \o <<"/", "filters", ".", mode, ".", "txt">>
task_filter(mode, task) ==
    SCRIPT_DIR \o <<"/", "filters", ".", mode, ".", task, ".", "txt">>

\* The task-specific filter is put before the global one.
get_filter_flags_specific_first(mode, task) ==
    (IF task_filter(mode, task) \in files
        THEN <<Str("--filter-from"), task_filter(mode, task)>> ELSE <<>>)
    \o
    (IF global_filter(mode) \in files
        THEN <<Str("--filter-from"), global_filter(mode)>> ELSE <<>>)

get_filter_flags(mode, task) ==
    (IF global_filter(mode) \in files
        THEN <<Str("--filter-from"), global_filter(mode)>> ELSE <<>>)
    \o
    (IF task_filter(mode, task) \in files
        THEN <<Str("--filter-from"), task_filter(mode, task)>> ELSE <<>>)

\* run_rclone(): the argument vector handed to run_subprocess_with_logging.
rclone_cmd(cmd_type, src, dst, base_flags, extra_flags) ==
    <<Str("rclone"), Str(IF cmd_type = "bisync" THEN "bisync" ELSE "sync"), src, dst>>
    \o base_flags \o extra_flags

----------------------------------------------------------------------------
(* The task loop of main(), flattened: modes in order, tasks in order. *)

RECURSIVE TasksOf(_, _)
TasksOf(mode, tasks) ==
    IF tasks = <<>> THEN <<>>
    ELSE <<[mode |-> mode, task_name |-> Head(tasks).name, cfg |-> Head(tasks).cfg]>>
         \o TasksOf(mode, Tail(tasks))

RECURSIVE Flatten(_)
Flatten(ts) ==
    IF ts = <<>> THEN <<>>
    ELSE TasksOf(Head(ts).mode, Head(ts).tasks) \o Flatten(Tail(ts))

\* The (mode, task_name, cfg) triples in the order of the loops.
Items == TASKS

\* The disabled key is never consulted.
is_disabled_ignored(cfg) == FALSE

\* main(), line 393: cfg.get("disabled", False)
is_disabled(cfg) == Get(cfg, "disabled", FALSE)

\* The extra flags are put before the filter arguments.
task_cmd_extras_first(it) ==
    LET base_flags == IF it.mode = "bisync" THEN FLAGS_BISYNC ELSE FLAGS_BACKUP
        filters == get_filter_flags(it.mode, it.task_name)
        extras == Get(it.cfg, "extra_flags", <<>>)
    IN  rclone_cmd(it.mode, src_path(it.cfg), dst_path(it.cfg), base_flags,
                   extras \o filters)

\* main(), lines 389 and 396-411: the command of one task.
task_cmd(it) ==
    LET base_flags == IF it.mode = "bisync" THEN FLAGS_BISYNC ELSE FLAGS_BACKUP
        filters == get_filter_flags(it.mode, it.task_name)
        extras == Get(it.cfg, "extra_flags", <<>>)
    IN  rclone_cmd(it.mode, src_path(it.cfg), dst_path(it.cfg), base_flags,
                   filters \o extras)

----------------------------------------------------------------------------
(* Inputs: config.json, flags.json and the filter files on disk. *)

CfgDocs ==
    [src |-> <<"~", "/", "docs">>, dst |-> <<"remote", ":", "bucket">>,
     extra_flags |-> <<Str("--dry-run")>>]
CfgPics ==
    [src |-> <<"pics">>, dst |-> <<"~", "/", "bak">>, disabled |-> TRUE]
CfgMusic ==
    [src |-> <<"/", "srv", "music">>, dst |-> <<"bak", "/", "music">>,
     disabled |-> FALSE]
CfgNotes ==
    [src |-> <<"notes">>, dst |-> <<"~", "/", "bak">>]

Docs == [name |-> "docs", cfg |-> CfgDocs]
Pics == [name |-> "pics", cfg |-> CfgPics]
Music == [name |-> "music", cfg |-> CfgMusic]
Notes == [name |-> "notes", cfg |-> CfgNotes]

\* Each input pairs a configuration with the filter files present beside it.
INPUTS ==
    { [TASKS |-> << [mode |-> "bisync", tasks |-> <<Docs>>],
                    [mode |-> "backup", tasks |-> <<Music>>] >>,
       files |-> {global_filter("bisync"), task_filter("backup", "music")}],
      [TASKS |-> << [mode |-> "backup", tasks |-> <<Pics, Docs>>] >>,
       files |-> {global_filter("backup"), task_filter("backup", "docs"),
                  task_filter("bisync", "docs")}],
      [TASKS |-> << [mode |-> "backup", tasks |-> <<>>],
                    [mode |-> "bisync", tasks |-> <<Notes>>] >>,
       files |-> {}] }

FLAG_INPUTS ==
    { [base |-> <<Str("--progress")>>,
       bisync |-> <<Str("--resilient"), Str("--recover")>>,
       backup |-> <<Str("--delete-excluded")>>,
       terminal |-> <<Str("--stats-one-line")>>,
       systemd |-> <<Str("--log-systemd")>>] }

\* Process 1 is started by the operator at a terminal, the others by the
\* timer, with --service.
SERVICE_INPUTS == { [i \in Inst |-> i # 1] }

\* How process 1 is started: the command line, the required file that is
\* missing when it loads its data, and the platform.  The other processes
\* are plain runs that find both files.
PlainStart == [args |-> "run", missing |-> "none", os |-> "posix"]

STARTS ==
    {PlainStart}
    \cup [args : {"install", "uninstall", "status"}, missing : {"none"},
          os : {"posix", "nt"}]
    \cup [args : {"run"}, missing : {"config.json", "flags.json"}, os : {"posix"}]
    \cup {[args |-> "install", missing |-> "flags.json", os |-> "nt"]}

\* A service command or a missing file is combined with the one-task
\* configurations only.
SCENARIOS ==
    {sc \in [in : INPUTS, start : STARTS] :
        sc.start = PlainStart \/ Len(Flatten(sc.in.TASKS)) = 1}

----------------------------------------------------------------------------
(* LOGGER records *)

Rec(level, msg, task, code) ==
    [level |-> level, msg |-> msg, task |-> task, code |-> code]

Logged(i, recs) == log' = [log EXCEPT ![i] = @ \o recs]
Called(i, ops) == calls' = [calls EXCEPT ![i] = @ \o ops]

\* The value run_subprocess_with_logging() returned for the current task; -1
\* stands for an exception raised instead.
Returned(i, rc) ==
    results' = [results EXCEPT ![i] = Append(@, [task |-> idx[i], return_code |-> rc])]

----------------------------------------------------------------------------
Init ==
    /\ \E sc \in SCENARIOS :
          /\ TASKS = Flatten(sc.in.TASKS)
          /\ files = sc.in.files
          /\ ARGS = [i \in Inst |-> IF i = 1 THEN sc.start.args ELSE "run"]
          /\ missing_json = [i \in Inst |-> IF i = 1 THEN sc.start.missing ELSE "none"]
          /\ os_name = sc.start.os
    /\ FLAGS_DATA \in FLAG_INPUTS
    /\ IS_SERVICE \in SERVICE_INPUTS
    /\ LOCK_DIR = 0
    /\ pc = [i \in Inst |-> "main"]
    /\ idx = [i \in Inst |-> 0]
    /\ pending = [i \in Inst |-> "none"]
    /\ exitCode = [i \in Inst |-> -1]
    /\ calls = [i \in Inst |-> <<>>]
    /\ launches = [i \in Inst |-> <<>>]
    /\ results = [i \in Inst |-> <<>>]
    /\ log = [i \in Inst |-> <<>>]
    /\ service_ops = [i \in Inst |-> <<>>]
    /\ filter_flags = [i \in Inst |-> <<>>]
    /\ process = [i \in Inst |-> "none"]

\* What the steps of the run path leave alone: the data loaded at start and
\* the state of the service commands and of the operations specified apart.
aside == <<ARGS, os_name, missing_json, service_ops, filter_flags, process>>

inputs == <<TASKS, FLAGS_DATA, files, IS_SERVICE, aside>>

\* The for loops of main(), lines 387 and 391: on to the next task, or out of
\* the loops and into the finally block when there is none.
next_task(i, k) ==
    /\ idx' = [idx EXCEPT ![i] = k]
    /\ pc' = [pc EXCEPT ![i] = IF k <= Len(Items) THEN "iterate" ELSE "cleanup"]

\* mkdir(exist_ok=True): an existing directory is taken for a fresh one.
acquire_lock_exist_ok(i) ==
    /\ pc[i] = "main"
    /\ LOCK_DIR' = i
    /\ Called(i, <<"mkdir">>)
    /\ pc' = [pc EXCEPT ![i] = "gate"]
    /\ UNCHANGED <<inputs, idx, pending, exitCode, launches, results, log>>

\* Contention is reported as an error exit, sys.exit(1).
acquire_lock_exit_1(i) ==
    /\ pc[i] = "main"
    /\ IF LOCK_DIR = 0
          THEN /\ LOCK_DIR' = i
               /\ Called(i, <<"mkdir">>)
               /\ pc' = [pc EXCEPT ![i] = "gate"]
               /\ UNCHANGED <<log, exitCode>>
          ELSE /\ Called(i, <<"mkdir_exists">>)
               /\ Logged(i, <<Rec("warning", "lock_exists", 0, -1),
                              Rec("error", "another_instance", 0, -1)>>)
               /\ pc' = [pc EXCEPT ![i] = "done"]
               /\ exitCode' = [exitCode EXCEPT ![i] = 1]
               /\ UNCHANGED LOCK_DIR
    /\ UNCHANGED <<inputs, idx, pending, launches, results>>

\* acquire_lock() is called inside the try block: a refused process leaves
\* through the finally block and its release_lock().
acquire_lock_inside_try(i) ==
    /\ pc[i] = "main"
    /\ IF LOCK_DIR = 0
          THEN /\ LOCK_DIR' = i
               /\ Called(i, <<"mkdir">>)
               /\ pc' = [pc EXCEPT ![i] = "gate"]
               /\ UNCHANGED log
          ELSE /\ Called(i, <<"mkdir_exists">>)
               /\ Logged(i, <<Rec("warning", "lock_exists", 0, -1),
                              Rec("error", "another_instance", 0, -1)>>)
               /\ pc' = [pc EXCEPT ![i] = "cleanup"]
               /\ UNCHANGED LOCK_DIR
    /\ UNCHANGED <<inputs, idx, pending, exitCode, launches, results>>

\* A directory left behind is recovered: when no process is between its
\* acquire_lock() and its release_lock(), the directory is taken over.
acquire_lock_recovers(i) ==
    /\ pc[i] = "main"
    /\ IF LOCK_DIR = 0
          \/ \A j \in Inst : pc[j] \notin {"gate", "iterate", "child", "cleanup"}
          THEN /\ LOCK_DIR' = i
               /\ Called(i, <<"mkdir">>)
               /\ pc' = [pc EXCEPT ![i] = "gate"]
               /\ UNCHANGED <<log, exitCode>>
          ELSE /\ Called(i, <<"mkdir_exists">>)
               /\ Logged(i, <<Rec("warning", "lock_exists", 0, -1),
                              Rec("error", "another_instance", 0, -1)>>)
               /\ pc' = [pc EXCEPT ![i] = "done"]
               /\ exitCode' = [exitCode EXCEPT ![i] = 0]
               /\ UNCHANGED LOCK_DIR
    /\ UNCHANGED <<inputs, idx, pending, launches, results>>

\* main(), lines 378-382 with acquire_lock(): Path.mkdir(exist_ok=False)
\* creates the directory or raises FileExistsError, atomically.  On success
\* control enters the try block; otherwise the process exits with status 0.
acquire_lock(i) ==
    /\ pc[i] = "main"
    /\ IF LOCK_DIR = 0
          THEN /\ LOCK_DIR' = i
               /\ Called(i, <<"mkdir">>)
               /\ pc' = [pc EXCEPT ![i] = "gate"]
               /\ UNCHANGED <<log, exitCode>>
          ELSE /\ Called(i, <<"mkdir_exists">>)
               /\ Logged(i, <<Rec("warning", "lock_exists", 0, -1),
                              Rec("error", "another_instance", 0, -1)>>)
               /\ pc' = [pc EXCEPT ![i] = "done"]
               /\ exitCode' = [exitCode EXCEPT ![i] = 0]
               /\ UNCHANGED LOCK_DIR
    /\ UNCHANGED <<inputs, idx, pending, launches, results>>

\* The probe is made before the try block: a failed probe leaves at once,
\* past the finally block.
check_internet_outside_try(i) ==
    /\ pc[i] = "gate"
    /\ \E ok \in BOOLEAN :
          /\ Called(i, <<IF ok THEN "ping_ok" ELSE "ping_fail">>)
          /\ IF ok
                THEN /\ next_task(i, 1)
                     /\ UNCHANGED <<log, exitCode>>
                ELSE /\ Logged(i, <<Rec("error", "no_internet", 0, -1)>>)
                     /\ exitCode' = [exitCode EXCEPT ![i] = 1]
                     /\ pc' = [pc EXCEPT ![i] = "done"]
                     /\ UNCHANGED idx
    /\ UNCHANGED <<inputs, LOCK_DIR, pending, launches, results>>

\* The result of the probe is logged but not acted on.
check_internet_not_fatal(i) ==
    /\ pc[i] = "gate"
    /\ \E ok \in BOOLEAN :
          /\ Called(i, <<IF ok THEN "ping_ok" ELSE "ping_fail">>)
          /\ Logged(i, IF ok THEN <<>> ELSE <<Rec("error", "no_internet", 0, -1)>>)
          /\ next_task(i, 1)
    /\ UNCHANGED <<inputs, LOCK_DIR, pending, exitCode, launches, results>>

\* main(), lines 383-385 with check_internet(): one ping; a failed probe
\* raises SystemExit(1) inside the try block.
check_internet(i) ==
    /\ pc[i] = "gate"
    /\ \E ok \in BOOLEAN :
          /\ Called(i, <<IF ok THEN "ping_ok" ELSE "ping_fail">>)
          /\ IF ok
                THEN /\ next_task(i, 1)
                     /\ UNCHANGED <<log, pending>>
                ELSE /\ Logged(i, <<Rec("error", "no_internet", 0, -1)>>)
                     /\ pending' = [pending EXCEPT ![i] = "SystemExit1"]
                     /\ pc' = [pc EXCEPT ![i] = "cleanup"]
                     /\ UNCHANGED idx
    /\ UNCHANGED <<inputs, LOCK_DIR, exitCode, launches, results>>

\* No finally block: the interrupt ends the process where it stands.
interrupt_main_no_finally(i) ==
    /\ pc[i] \in {"gate", "iterate"}
    /\ pending' = [pending EXCEPT ![i] = "KeyboardInterrupt"]
    /\ pc' = [pc EXCEPT ![i] = "done"]
    /\ exitCode' = [exitCode EXCEPT ![i] = 130]
    /\ UNCHANGED <<inputs, LOCK_DIR, idx, calls, launches, results, log>>

\* KeyboardInterrupt while main() waits for the probe or is between two
\* tasks: no handler on the way, the finally block runs and lets it through.
interrupt_main(i) ==
    /\ pc[i] \in {"gate", "iterate"}
    /\ pending' = [pending EXCEPT ![i] = "KeyboardInterrupt"]
    /\ pc' = [pc EXCEPT ![i] = "cleanup"]
    /\ UNCHANGED <<inputs, LOCK_DIR, idx, exitCode, calls, launches, results, log>>

\* main(), lines 391-395: a disabled task is logged and skipped.
skip_disabled(i) ==
    /\ pc[i] = "iterate"
    /\ is_disabled(Items[idx[i]].cfg)
    /\ Logged(i, <<Rec("info", "skip", idx[i], -1)>>)
    /\ next_task(i, idx[i] + 1)
    /\ UNCHANGED <<inputs, LOCK_DIR, pending, exitCode, calls, launches, results>>

\* main(), lines 396-411, run_rclone() up to subprocess.Popen(): the command
\* is built and the child is started, or Popen raises (rclone not installed),
\* which run_subprocess_with_logging logs and re-raises and run_rclone logs.
launch(i) ==
    /\ pc[i] = "iterate"
    /\ ~is_disabled(Items[idx[i]].cfg)
    /\ launches' = [launches EXCEPT
                      ![i] = Append(@, [task |-> idx[i], cmd |-> task_cmd(Items[idx[i]])])]
    /\ Called(i, <<"popen">>)
    /\ \E started \in BOOLEAN :
          IF started
             THEN /\ Logged(i, <<Rec("info", "start", idx[i], -1)>>)
                  /\ pc' = [pc EXCEPT ![i] = "child"]
                  /\ UNCHANGED <<idx, results>>
             ELSE /\ Logged(i, <<Rec("info", "start", idx[i], -1),
                                 Rec("error", "subprocess_error", idx[i], -1),
                                 Rec("error", "rclone_error", idx[i], -1)>>)
                  /\ Returned(i, -1)
                  /\ next_task(i, idx[i] + 1)
    /\ UNCHANGED <<inputs, LOCK_DIR, pending, exitCode>>

\* A task that exited nonzero is tried again.
child_exit_retry(i) ==
    /\ pc[i] = "child"
    /\ \E rc \in ExitCodes :
          /\ Returned(i, rc)
          /\ Logged(i, <<IF rc = 0 THEN Rec("info", "finished", idx[i], -1)
                                   ELSE Rec("error", "failed", idx[i], rc)>>)
          /\ next_task(i, IF rc = 0 THEN idx[i] + 1 ELSE idx[i])
    /\ UNCHANGED <<inputs, LOCK_DIR, pending, exitCode, calls, launches>>

\* A nonzero exit code of a task becomes the status of the run, sys.exit(1).
child_exit_sys_exit(i) ==
    /\ pc[i] = "child"
    /\ \E rc \in ExitCodes :
          /\ Returned(i, rc)
          /\ Logged(i, <<IF rc = 0 THEN Rec("info", "finished", idx[i], -1)
                                   ELSE Rec("error", "failed", idx[i], rc)>>)
          /\ IF rc = 0
                THEN next_task(i, idx[i] + 1) /\ UNCHANGED pending
                ELSE /\ pc' = [pc EXCEPT ![i] = "cleanup"]
                     /\ pending' = [pending EXCEPT ![i] = "SystemExit1"]
                     /\ UNCHANGED idx
    /\ UNCHANGED <<inputs, LOCK_DIR, exitCode, calls, launches>>

\* A nonzero exit code is raised (as with check=True) and not caught: it
\* leaves the loops through the finally block.
child_exit_raises(i) ==
    /\ pc[i] = "child"
    /\ \E rc \in ExitCodes :
          /\ Returned(i, rc)
          /\ Logged(i, <<IF rc = 0 THEN Rec("info", "finished", idx[i], -1)
                                   ELSE Rec("error", "failed", idx[i], rc)>>)
          /\ IF rc = 0
                THEN next_task(i, idx[i] + 1) /\ UNCHANGED pending
                ELSE /\ pc' = [pc EXCEPT ![i] = "cleanup"]
                     /\ pending' = [pending EXCEPT ![i] = "CalledProcessError"]
                     /\ UNCHANGED idx
    /\ UNCHANGED <<inputs, LOCK_DIR, exitCode, calls, launches>>

\* run_subprocess_with_logging(), lines 313-322, and run_rclone(), lines
\* 348-353: the child exits, its code is logged, the loop goes on.
child_exit(i) ==
    /\ pc[i] = "child"
    /\ \E rc \in ExitCodes :
          /\ Returned(i, rc)
          /\ Logged(i, <<IF rc = 0 THEN Rec("info", "finished", idx[i], -1)
                                   ELSE Rec("error", "failed", idx[i], rc)>>)
    /\ next_task(i, idx[i] + 1)
    /\ UNCHANGED <<inputs, LOCK_DIR, pending, exitCode, calls, launches>>

\* run_subprocess_with_logging(), lines 328-335: an exception while the
\* output is read; the child is terminated, the exception re-raised and
\* caught by run_rclone(), line 354.
child_error(i) ==
    /\ pc[i] = "child"
    /\ Logged(i, <<Rec("error", "subprocess_error", idx[i], -1),
                   Rec("error", "rclone_error", idx[i], -1)>>)
    /\ Called(i, <<"terminate">>)
    /\ Returned(i, -1)
    /\ next_task(i, idx[i] + 1)
    /\ UNCHANGED <<inputs, LOCK_DIR, pending, exitCode, launches>>

\* run_subprocess_with_logging(), lines 323-327: KeyboardInterrupt while the
\* child is active; the child is terminated and Exception("Interrupted by
\* user") is raised, which run_rclone(), line 354, catches and logs.
interrupt_child(i) ==
    /\ pc[i] = "child"
    /\ Logged(i, <<Rec("warning", "interrupted", idx[i], -1),
                   Rec("error", "rclone_error", idx[i], -1)>>)
    /\ Called(i, <<"terminate">>)
    /\ Returned(i, -1)
    /\ next_task(i, idx[i] + 1)
    /\ UNCHANGED <<inputs, LOCK_DIR, pending, exitCode, launches>>

\* main(), lines 413-414 with release_lock(): the directory is removed if it
\* exists; a failing rmdir is logged, not raised.  Then the process ends: with
\* the pending exception's status, or 0.
release_lock(i) ==
    /\ pc[i] = "cleanup"
    /\ IF LOCK_DIR # 0
          THEN \E removed \in BOOLEAN :
                 IF removed
                    THEN /\ LOCK_DIR' = 0
                         /\ Called(i, <<"exists", "rmdir">>)
                         /\ UNCHANGED log
                    ELSE /\ Called(i, <<"exists", "rmdir_fail">>)
                         /\ Logged(i, <<Rec("warning", "release_failed", 0, -1)>>)
                         /\ UNCHANGED LOCK_DIR
          ELSE /\ Called(i, <<"exists">>)
               /\ UNCHANGED <<LOCK_DIR, log>>
    /\ pc' = [pc EXCEPT ![i] = "done"]
    /\ exitCode' = [exitCode EXCEPT
                      ![i] = IF pending[i] = "SystemExit1" THEN 1
                             ELSE IF pending[i] = "KeyboardInterrupt" THEN 130
                             ELSE 0]
    /\ UNCHANGED <<inputs, idx, pending, launches, results>>

----------------------------------------------------------------------------
(* Start of the process: the data files and the service commands *)

\* What load_json() and the service commands leave alone.
start_frame ==
    <<TASKS, FLAGS_DATA, files, IS_SERVICE, ARGS, os_name, missing_json,
      filter_flags, process, LOCK_DIR, idx, pending, calls, launches, results>>

\* The process ends at once with the given status.
exit_at_start(i, code) ==
    /\ pc' = [pc EXCEPT ![i] = "done"]
    /\ exitCode' = [exitCode EXCEPT ![i] = code]
    /\ UNCHANGED start_frame

\* subprocess.run(cmd): the exit status is not looked at.
Ran(cmd) == [cmd |-> cmd, rc |-> -1]

\* The command ran and exited with rc; -1 stands for an exception raised by
\* run_subprocess_with_logging().
Exited(cmd, rc) == [cmd |-> cmd, rc |-> rc]

Serviced(i, ops) == service_ops' = [service_ops EXCEPT ![i] = @ \o ops]

\* Both required files are found, lines 97-98.
Loaded(i) == missing_json[i] = "none"

\* main(), line 360
IsCommand(i) == ARGS[i] \in {"install", "uninstall", "status"}

\* A missing file is reported and taken for an empty one: the run goes on to
\* the lock.
load_json_missing_goes_on(i) ==
    /\ pc[i] = "main"
    /\ ~Loaded(i)
    /\ Logged(i, <<Rec("error", "file_not_found", 0, 0)>>)
    /\ IF LOCK_DIR = 0
          THEN /\ LOCK_DIR' = i
               /\ Called(i, <<"mkdir">>)
               /\ pc' = [pc EXCEPT ![i] = "cleanup"]
               /\ UNCHANGED exitCode
          ELSE /\ Called(i, <<"mkdir_exists">>)
               /\ pc' = [pc EXCEPT ![i] = "done"]
               /\ exitCode' = [exitCode EXCEPT ![i] = 0]
               /\ UNCHANGED LOCK_DIR
    /\ UNCHANGED <<TASKS, FLAGS_DATA, files, IS_SERVICE, aside, idx, pending,
                   launches, results>>

\* load_json(), lines 90-92, called at lines 97 and 98 while the module is
\* loaded: a required file is not there.
load_json_missing(i) ==
    /\ pc[i] = "main"
    /\ ~Loaded(i)
    /\ Logged(i, <<Rec("error", "file_not_found", 0, 0)>>)
    /\ UNCHANGED service_ops
    /\ exit_at_start(i, 1)

install_systemd(i) ==
    /\ pc[i] = "main" /\ Loaded(i)
    /\ ARGS[i] = "install" /\ os_name # "nt"
    /\ Serviced(i, <<Ran("daemon-reload"), Ran("enable"), Ran("enable-linger")>>)
    /\ Logged(i, <<Rec("info", "enabling_linger", 0, 0),
                   Rec("info", "installation_complete", 0, 0)>>)
    /\ exit_at_start(i, 0)

uninstall_systemd(i) ==
    /\ pc[i] = "main" /\ Loaded(i)
    /\ ARGS[i] = "uninstall" /\ os_name # "nt"
    /\ Serviced(i, <<Ran("disable"), Ran("daemon-reload")>>)
    /\ Logged(i, <<Rec("info", "uninstalled", 0, 0)>>)
    /\ exit_at_start(i, 0)

show_status_systemd(i) ==
    /\ pc[i] = "main" /\ Loaded(i)
    /\ ARGS[i] = "status" /\ os_name # "nt"
    /\ Serviced(i, <<Ran("list-timers"), Ran("journalctl")>>)
    /\ UNCHANGED log
    /\ exit_at_start(i, 0)

\* The process is not elevated: it asks for an elevated copy and exits.
windows_check_admin_and_elevate(i) ==
    /\ pc[i] = "main" /\ Loaded(i)
    /\ ARGS[i] \in {"install", "uninstall"} /\ os_name = "nt"
    /\ Serviced(i, <<Ran("runas")>>)
    /\ Logged(i, <<Rec("info", "requesting_elevation", 0, 0),
                   Rec("info", "elevation_requested", 0, 0)>>)
    /\ exit_at_start(i, 0)

\* The elevated process: the exit status run_subprocess_with_logging()
\* returns is dropped, and no CalledProcessError is ever raised.
install_windows_task(i) ==
    /\ pc[i] = "main" /\ Loaded(i)
    /\ ARGS[i] = "install" /\ os_name = "nt"
    /\ \E rc \in ExitCodes \cup {-1} :
          /\ Serviced(i, <<Exited("powershell", rc)>>)
          /\ Logged(i, <<Rec("info", "installing_windows_task", 0, 0)>>
                        \o (IF rc = -1
                            THEN <<Rec("error", "subprocess_error", 0, 0),
                                   Rec("error", "unexpected_error", 0, 0)>>
                            ELSE <<Rec("info", "task_created", 0, 0)>>))
    /\ exit_at_start(i, 0)

\* The elevated process; an exception of the executor is not caught here and
\* ends the process with a traceback.
uninstall_windows_task(i) ==
    /\ pc[i] = "main" /\ Loaded(i)
    /\ ARGS[i] = "uninstall" /\ os_name = "nt"
    /\ \E rc \in ExitCodes \cup {-1} :
          /\ Serviced(i, <<Exited("powershell", rc)>>)
          /\ Logged(i, IF rc = -1
                          THEN <<Rec("error", "subprocess_error", 0, 0)>>
                          ELSE <<Rec("info", "task_unregistered", 0, 0)>>)
          /\ exit_at_start(i, IF rc = -1 THEN 1 ELSE 0)

\* subprocess.run(check=True): a nonzero status is printed as "not installed".
show_status_windows_task(i) ==
    /\ pc[i] = "main" /\ Loaded(i)
    /\ ARGS[i] = "status" /\ os_name = "nt"
    /\ \E rc \in ExitCodes : Serviced(i, <<Exited("schtasks", rc)>>)
    /\ UNCHANGED log
    /\ exit_at_start(i, 0)

\* The branch of the service commands lacks its return: after the command
\* main() goes on to acquire_lock().
service_command_no_return(i) ==
    /\ pc[i] = "main" /\ Loaded(i) /\ IsCommand(i)
    /\ Serviced(i, <<Ran(ARGS[i])>>)
    /\ IF LOCK_DIR = 0
          THEN /\ LOCK_DIR' = i
               /\ Called(i, <<"mkdir">>)
               /\ pc' = [pc EXCEPT ![i] = "gate"]
               /\ UNCHANGED exitCode
          ELSE /\ Called(i, <<"mkdir_exists">>)
               /\ pc' = [pc EXCEPT ![i] = "done"]
               /\ exitCode' = [exitCode EXCEPT ![i] = 0]
               /\ UNCHANGED LOCK_DIR
    /\ UNCHANGED <<TASKS, FLAGS_DATA, files, IS_SERVICE, ARGS, os_name,
                   missing_json, filter_flags, process, idx, pending, launches,
                   results, log>>

\* main(), lines 360-376: the branch of the service commands, left by return.
service_command(i) ==
    \/ install_systemd(i)
    \/ uninstall_systemd(i)
    \/ show_status_systemd(i)
    \/ windows_check_admin_and_elevate(i)
    \/ install_windows_task(i)
    \/ uninstall_windows_task(i)
    \/ show_status_windows_task(i)

\* main(), line 378, reached when the files were loaded and no service
\* command was given.
run(i) == Loaded(i) /\ ~IsCommand(i) /\ acquire_lock(i)

----------------------------------------------------------------------------
Next ==
    \E i \in Inst :
        \/ load_json_missing(i)
        \/ service_command(i)
        \/ run(i)
        \/ check_internet(i)
        \/ interrupt_main(i)
        \/ skip_disabled(i)
        \/ launch(i)
        \/ child_exit(i)
        \/ child_error(i)
        \/ interrupt_child(i)
        \/ release_lock(i)

Spec == Init /\ [][Next]_vars

----------------------------------------------------------------------------
(* Vocabulary of the properties *)

Range(q) == {q[k] : k \in 1..Len(q)}

Pings == {"ping_ok", "ping_fail"}

\* acquire_lock() returned True / False in process i.
Acquired(i) == "mkdir" \in Range(calls[i])
Refused(i) == "mkdir_exists" \in Range(calls[i])

\* release_lock() was executed; its rmdir succeeded.
ReleaseRun(i) == "exists" \in Range(calls[i])
Removed(i) == "rmdir" \in Range(calls[i])

\* Process i is in the task-iteration phase.
Iterating(i) == pc[i] \in {"iterate", "child"}

Ended(i) == pc[i] = "done"

TaskIds == 1..Len(Items)
Enabled(k) == ~("disabled" \in DOMAIN Items[k].cfg /\ Items[k].cfg["disabled"])

Launched(i, k) == \E n \in 1..Len(launches[i]) : launches[i][n].task = k
LaunchCount(i, k) == Cardinality({n \in 1..Len(launches[i]) : launches[i][n].task = k})

\* The records logged about task k, in order.
LogOf(i, k) == SelectSeq(log[i], LAMBDA r : r.task = k)

\* Task k's subprocess exited nonzero, or failed to launch or to run with an
\* exception other than the operator's interrupt.
Failed(i, k) ==
    \E r \in Range(log[i]) : r.task = k /\ r.msg \in {"failed", "subprocess_error"}

\* The operator's interrupt arrived while task k's subprocess was active.
InterruptedIn(i, k) ==
    \E r \in Range(log[i]) : r.task = k /\ r.msg = "interrupted"

\* The flags that follow "rclone <verb> <src> <dst>".
FlagsOf(cmd) == SubSeq(cmd, 5, Len(cmd))

ModeFlags(mode) == IF mode = "bisync" THEN FLAGS_DATA["bisync"] ELSE FLAGS_DATA["backup"]

----------------------------------------------------------------------------
\* C1: Mutual exclusion. Of the processes that contend for the lock
\* directory at most one holds it at a time; a process refused by
\* acquire_lock() lost to another process's directory and launches no sync
\* subprocess; no two processes are in the task-iteration phase together.
C1_MutualExclusion ==
    /\ \A i, j \in Inst :
          i # j => /\ ~(Iterating(i) /\ Iterating(j))
                   /\ ~(Acquired(i) /\ ~Ended(i) /\ Acquired(j) /\ ~Ended(j))
    /\ \A j \in Inst :
          Refused(j) => /\ ~Acquired(j)
                        /\ launches[j] = <<>>
                        /\ \E i \in Inst \ {j} : Acquired(i)

\* Two processes contended: one runs a child, the other was refused.
C1_Witness ==
    \E i, j \in Inst : i # j /\ pc[i] = "child" /\ Refused(j) /\ Ended(j)

\* C2: Guaranteed release. A process that acquired the lock has executed
\* release_lock() when it ends, whatever ended it (tasks finished, task
\* failures, the failed probe, the operator's interrupt), and when the rmdir
\* succeeded the directory it made is gone.
C2_GuaranteedRelease ==
    \A i \in Inst :
        (Acquired(i) /\ Ended(i)) =>
            /\ ReleaseRun(i)
            /\ Removed(i) => LOCK_DIR # i

\* An interrupted run and a run with a failed task have both ended with the
\* directory removed.
C2_Witness ==
    /\ \E i \in Inst :
          Ended(i) /\ pending[i] = "KeyboardInterrupt" /\ Removed(i) /\ LOCK_DIR = 0
    /\ \E i \in Inst :
          Ended(i) /\ pending[i] = "none" /\ Removed(i)
             /\ \E k \in TaskIds : Failed(i, k)

\* C3: Cancellation aborts the loop. Once the operator's interrupt has
\* arrived during the subprocess of task k, no subprocess is launched for a
\* task that follows k.
C3_CancellationAbortsLoop ==
    \A i \in Inst : \A k \in TaskIds :
        InterruptedIn(i, k) => \A m \in TaskIds : m > k => ~Launched(i, m)

\* C4: Partial-failure isolation. When task A failed (nonzero exit, or an
\* exception other than the interrupt) the loop goes on: nothing but its end
\* or the operator's interrupt takes the run out of it, every enabled task B
\* the loop has passed was launched, once, and what is logged for B follows
\* from B's own return code.
C4_PartialFailureIsolation ==
    \A i \in Inst : \A a \in TaskIds :
        Failed(i, a) =>
            /\ (pc[i] \in {"cleanup", "done"} /\ pending[i] # "KeyboardInterrupt")
                   => idx[i] = Len(Items) + 1
            /\ \A b \in TaskIds :
                  (a < b /\ Enabled(b) /\ idx[i] > b) =>
                      /\ LaunchCount(i, b) = 1
                      /\ \E r \in Range(results[i]) :
                            /\ r.task = b
                            /\ r.return_code = 0 =>
                                  LogOf(i, b) = <<Rec("info", "start", b, -1),
                                                  Rec("info", "finished", b, -1)>>
                            /\ r.return_code > 0 =>
                                  LogOf(i, b) = <<Rec("info", "start", b, -1),
                                                  Rec("error", "failed", b, r.return_code)>>
                            /\ r.return_code < 0 =>
                                  /\ LogOf(i, b)[Len(LogOf(i, b))].msg = "rclone_error"
                                  /\ \A n \in 1..Len(LogOf(i, b)) :
                                        LogOf(i, b)[n].msg \notin {"finished", "failed"}

\* A failed with exit code 1, B after it finished with 0 and is logged so.
C4_Witness ==
    \E i \in Inst : \E a, b \in TaskIds :
        /\ a < b
        /\ [task |-> a, return_code |-> 1] \in Range(results[i])
        /\ [task |-> b, return_code |-> 0] \in Range(results[i])
        /\ Rec("info", "finished", b, -1) \in Range(log[i])

\* C5: Flag merge order. The flags of every launched command are the base
\* flags, the flags of the task's mode, the cascading filter arguments and
\* the task's extra_flags, in this order, each group once.
C5_FlagMergeOrder ==
    \A i \in Inst : \A n \in 1..Len(launches[i]) :
        LET it == Items[launches[i][n].task]
            cmd == launches[i][n].cmd
        IN  /\ SubSeq(cmd, 1, 2) =
                  <<Str("rclone"), Str(IF it.mode = "bisync" THEN "bisync" ELSE "sync")>>
            /\ FlagsOf(cmd) =
                  FLAGS_DATA["base"] \o ModeFlags(it.mode)
                     \o get_filter_flags(it.mode, it.task_name)
                     \o (IF "extra_flags" \in DOMAIN it.cfg
                            THEN it.cfg["extra_flags"] ELSE <<>>)

\* A launched command in which all four groups are non-empty.
C5_Witness ==
    \E i \in Inst : \E n \in 1..Len(launches[i]) :
        LET it == Items[launches[i][n].task]
        IN  /\ get_filter_flags(it.mode, it.task_name) # <<>>
            /\ "extra_flags" \in DOMAIN it.cfg /\ it.cfg["extra_flags"] # <<>>
            /\ FLAGS_DATA["base"] # <<>> /\ ModeFlags(it.mode) # <<>>

\* C6: Environment-specific flag layer. The flags of every launched command
\* hold the environment's flag set (systemd under --service, terminal
\* otherwise) after the mode's flags and before the filter arguments.
C6_EnvironmentFlagLayer ==
    \A i \in Inst : \A n \in 1..Len(launches[i]) :
        LET it == Items[launches[i][n].task]
            env == IF IS_SERVICE[i] THEN FLAGS_DATA["systemd"] ELSE FLAGS_DATA["terminal"]
            before == Len(FLAGS_DATA["base"]) + Len(ModeFlags(it.mode))
            flags == FlagsOf(launches[i][n].cmd)
        IN  /\ Len(flags) >= before + Len(env)
            /\ SubSeq(flags, before + 1, before + Len(env)) = env

\* C7: Disabled-task exclusion. No subprocess is ever launched for a task
\* whose config has disabled = true; the loop logs the skip and goes on, so
\* that every enabled task it has passed after a disabled one was launched.
C7_DisabledTaskExclusion ==
    \A i \in Inst : \A d \in TaskIds :
        ~Enabled(d) =>
            /\ ~Launched(i, d)
            /\ \A r \in Range(results[i]) : r.task # d
            /\ idx[i] > d =>
                  /\ LogOf(i, d) = <<Rec("info", "skip", d, -1)>>
                  /\ pending[i] = "none" => (Iterating(i) \/ idx[i] = Len(Items) + 1)
                  /\ \A b \in TaskIds : (b > d /\ Enabled(b) /\ idx[i] > b) => Launched(i, b)

\* A disabled task was passed and the enabled task after it was launched.
C7_Witness ==
    \E i \in Inst : \E d, b \in TaskIds :
        /\ ~Enabled(d) /\ d < b /\ Enabled(b)
        /\ Items[d].cfg["src"] # <<>> /\ Launched(i, b) /\ ~Launched(i, d)

\* C8: Lock contention is a successful skip. A process refused by
\* acquire_lock() has ended with exit code 0, having issued no probe and
\* launched no subprocess.
C8_ContentionIsSuccessfulSkip ==
    \A j \in Inst :
        Refused(j) =>
            /\ Ended(j) /\ exitCode[j] = 0
            /\ calls[j] = <<"mkdir_exists">>
            /\ launches[j] = <<>> /\ results[j] = <<>>

\* A process was refused while the holder was still running.
C8_Witness ==
    \E i, j \in Inst : i # j /\ Refused(j) /\ exitCode[j] = 0 /\ LOCK_DIR = i /\ ~Ended(i)

\* C9 as stated: after a failed probe the run has launched nothing, exits
\* with code 1, had acquired the lock, and the lock directory is absent.
C9_AsStated ==
    \A i \in Inst :
        ("ping_fail" \in Range(calls[i]) /\ Ended(i)) =>
            /\ launches[i] = <<>>
            /\ exitCode[i] = 1
            /\ Acquired(i)
            /\ LOCK_DIR # i

\* C9, amended: after a failed probe the run has launched nothing, exits
\* with code 1, had acquired the lock and has executed release_lock(); the
\* lock directory is absent unless its removal failed.
C9_ConnectivityFailure ==
    \A i \in Inst :
        ("ping_fail" \in Range(calls[i]) /\ Ended(i)) =>
            /\ launches[i] = <<>>
            /\ exitCode[i] = 1
            /\ Acquired(i)
            /\ ReleaseRun(i)
            /\ "rmdir_fail" \notin Range(calls[i]) => (Removed(i) /\ LOCK_DIR # i)

\* The probe failed and the run ended with code 1 and the directory removed.
C9_Witness ==
    \E i \in Inst :
        /\ "ping_fail" \in Range(calls[i]) /\ Ended(i)
        /\ exitCode[i] = 1 /\ Removed(i) /\ LOCK_DIR = 0

\* The phase of main() a system operation belongs to.
PhaseOf(op) ==
    CASE op \in {"mkdir", "mkdir_exists"} -> "LOCK"
      [] op \in Pings -> "GATE"
      [] op \in {"popen", "terminate"} -> "ITERATE"
      [] OTHER -> "CLEANUP"

\* The place of phase ph in the sequence of phases `order`.
PlaceIn(order, ph) == CHOOSE x \in 1..Len(order) : order[x] = ph

\* The operations of process i run through the phases in the order `order`.
InPhaseOrder(i, order) ==
    \A n \in 1..(Len(calls[i]) - 1) :
        PlaceIn(order, PhaseOf(calls[i][n])) <= PlaceIn(order, PhaseOf(calls[i][n + 1]))

GateFailedNoTask(i) ==
    "ping_fail" \in Range(calls[i]) => ("popen" \notin Range(calls[i]) /\ launches[i] = <<>>)

\* C10 as stated: the phases are GATE, LOCK, ITERATE, CLEANUP in this order
\* (the probe is issued before the lock is tried), and a run that fails the
\* gate attempts no task.
C10_AsStated ==
    \A i \in Inst :
        /\ InPhaseOrder(i, <<"GATE", "LOCK", "ITERATE", "CLEANUP">>)
        /\ GateFailedNoTask(i)

\* C10, amended: the phases are LOCK, GATE, ITERATE, CLEANUP in this order
\* (the lock is tried first and the probe is issued only by the process that
\* holds it), and a run that fails the gate attempts no task.
C10_PhaseOrder ==
    \A i \in Inst :
        /\ InPhaseOrder(i, <<"LOCK", "GATE", "ITERATE", "CLEANUP">>)
        /\ (calls[i] # <<>>) => PhaseOf(calls[i][1]) = "LOCK"
        /\ (\E p \in Pings : p \in Range(calls[i])) => Acquired(i)
        /\ GateFailedNoTask(i)

\* A run that went through all four phases, and one stopped at the gate.
C10_Witness ==
    /\ \E i \in Inst :
          Ended(i) /\ {"mkdir", "ping_ok", "popen", "exists"} \subseteq Range(calls[i])
    /\ \E i \in Inst :
          Ended(i) /\ "ping_fail" \in Range(calls[i]) /\ launches[i] = <<>>

----------------------------------------------------------------------------
(* A killed holder.  The run path with one more event: the process is
   killed (SIGKILL, power loss) between its acquire_lock() and its
   release_lock(); no finally block runs. *)

killed(i) ==
    /\ pc[i] \in {"gate", "iterate", "child", "cleanup"}
    /\ pc' = [pc EXCEPT ![i] = "killed"]
    /\ exitCode' = [exitCode EXCEPT ![i] = 137]
    /\ UNCHANGED <<inputs, LOCK_DIR, idx, pending, calls, launches, results, log>>

NextStale == Next \/ \E i \in Inst : killed(i)

SpecStale == Init /\ [][NextStale]_vars

----------------------------------------------------------------------------
(* get_filter_flags() on its own: processes call it for the tasks of the
   configuration while the operator creates and deletes filter files. *)

NoCall == [mode |-> "", task |-> "", flags |-> <<>>]

\* The filter files get_filter_flags() looks for, for the tasks configured.
FilterFiles ==
    {global_filter(Items[k].mode) : k \in 1..Len(Items)}
    \cup {task_filter(Items[k].mode, Items[k].task_name) : k \in 1..Len(Items)}

InitFilters ==
    /\ \E in \in INPUTS : TASKS = Flatten(in.TASKS) /\ files = in.files
    /\ FLAGS_DATA \in FLAG_INPUTS
    /\ IS_SERVICE \in SERVICE_INPUTS
    /\ ARGS = [i \in Inst |-> "run"]
    /\ missing_json = [i \in Inst |-> "none"]
    /\ os_name = "posix"
    /\ LOCK_DIR = 0
    /\ pc = [i \in Inst |-> "main"]
    /\ idx = [i \in Inst |-> 0]
    /\ pending = [i \in Inst |-> "none"]
    /\ exitCode = [i \in Inst |-> -1]
    /\ calls = [i \in Inst |-> <<>>]
    /\ launches = [i \in Inst |-> <<>>]
    /\ results = [i \in Inst |-> <<>>]
    /\ log = [i \in Inst |-> <<>>]
    /\ service_ops = [i \in Inst |-> <<>>]
    /\ filter_flags = [i \in Inst |-> NoCall]
    /\ process = [i \in Inst |-> "none"]

\* main(), line 405: filters = get_filter_flags(mode, task_name)
call_get_filter_flags(i) ==
    /\ \E k \in 1..Len(Items) :
          filter_flags' = [filter_flags EXCEPT
              ![i] = [mode |-> Items[k].mode, task |-> Items[k].task_name,
                      flags |-> get_filter_flags(Items[k].mode, Items[k].task_name)]]
    /\ UNCHANGED <<TASKS, FLAGS_DATA, files, IS_SERVICE, ARGS, os_name,
                   missing_json, service_ops, process, LOCK_DIR, pc, idx,
                   pending, exitCode, calls, launches, results, log>>

\* The operator creates or deletes a filter file.
edit_filter_file ==
    /\ \E f \in FilterFiles :
          files' = IF f \in files THEN files \ {f} ELSE files \cup {f}
    /\ UNCHANGED <<TASKS, FLAGS_DATA, IS_SERVICE, ARGS, os_name, missing_json,
                   service_ops, filter_flags, process, LOCK_DIR, pc, idx,
                   pending, exitCode, calls, launches, results, log>>

NextFilters == edit_filter_file \/ \E i \in Inst : call_get_filter_flags(i)

SpecFilters == InitFilters /\ [][NextFilters]_vars

----------------------------------------------------------------------------
(* run_subprocess_with_logging() on its own: each process makes one call.
   pc is the position in the function, process the state of the child:
   "none" (no Popen object), "running", "terminating" (SIGTERM sent, not yet
   exited), "exited", "killed".  The run path above takes the call as two
   steps, launch and outcome, and records of the cleanup the terminate
   only; here the poll and the kill of the finally block are steps too. *)

InitExecutor ==
    /\ \E in \in INPUTS : TASKS = Flatten(in.TASKS) /\ files = in.files
    /\ FLAGS_DATA \in FLAG_INPUTS
    /\ IS_SERVICE \in SERVICE_INPUTS
    /\ ARGS = [i \in Inst |-> "run"]
    /\ missing_json = [i \in Inst |-> "none"]
    /\ os_name = "posix"
    /\ LOCK_DIR = 0
    /\ pc = [i \in Inst |-> "call"]
    /\ idx = [i \in Inst |-> 0]
    /\ pending = [i \in Inst |-> "none"]
    /\ exitCode = [i \in Inst |-> -1]
    /\ calls = [i \in Inst |-> <<>>]
    /\ launches = [i \in Inst |-> <<>>]
    /\ results = [i \in Inst |-> <<>>]
    /\ log = [i \in Inst |-> <<>>]
    /\ service_ops = [i \in Inst |-> <<>>]
    /\ filter_flags = [i \in Inst |-> <<>>]
    /\ process = [i \in Inst |-> "none"]

executor_frame ==
    <<TASKS, FLAGS_DATA, files, IS_SERVICE, ARGS, os_name, missing_json,
      service_ops, filter_flags, LOCK_DIR, idx, exitCode, launches>>

\* process.terminate(): SIGTERM to a child that has not exited.
terminate(i) ==
    /\ Called(i, <<"terminate">>)
    /\ process' = [process EXCEPT ![i] = IF @ = "running" THEN "terminating" ELSE @]

\* Lines 303-309: Popen starts the child, or raises before there is one;
\* then lines 328-332 with process = None.
popen(i) ==
    /\ pc[i] = "call"
    /\ \E started \in BOOLEAN :
          IF started
             THEN /\ process' = [process EXCEPT ![i] = "running"]
                  /\ pc' = [pc EXCEPT ![i] = "reading"]
                  /\ Called(i, <<"popen">>)
                  /\ UNCHANGED <<log, pending>>
             ELSE /\ pc' = [pc EXCEPT ![i] = "finally"]
                  /\ pending' = [pending EXCEPT ![i] = "Exception"]
                  /\ Called(i, <<"popen">>)
                  /\ Logged(i, <<Rec("error", "subprocess_error", 0, -1)>>)
                  /\ UNCHANGED process
    /\ UNCHANGED <<executor_frame, results>>

\* The child exits: by itself, or on the SIGTERM it was sent.
child_ends(i) ==
    /\ process[i] \in {"running", "terminating"}
    /\ process' = [process EXCEPT ![i] = "exited"]
    /\ UNCHANGED <<executor_frame, pc, pending, calls, results, log>>

\* Lines 311-322: end of the child's output, then process.wait().
wait_returns(i) ==
    /\ pc[i] = "reading"
    /\ process[i] = "exited"
    /\ \E rc \in ExitCodes :
          results' = [results EXCEPT ![i] = Append(@, [task |-> 0, return_code |-> rc])]
    /\ pc' = [pc EXCEPT ![i] = "finally"]
    /\ UNCHANGED <<executor_frame, process, pending, calls, log>>

\* Lines 323-327: KeyboardInterrupt while the output is read or waited for.
except_keyboard_interrupt(i) ==
    /\ pc[i] = "reading"
    /\ Logged(i, <<Rec("warning", "interrupted", 0, -1)>>)
    /\ terminate(i)
    /\ pending' = [pending EXCEPT ![i] = "Interrupted by user"]
    /\ pc' = [pc EXCEPT ![i] = "finally"]
    /\ UNCHANGED <<executor_frame, results>>

\* Lines 328-332: any other exception while the output is read.
except_exception(i) ==
    /\ pc[i] = "reading"
    /\ Logged(i, <<Rec("error", "subprocess_error", 0, -1)>>)
    /\ terminate(i)
    /\ pending' = [pending EXCEPT ![i] = "Exception"]
    /\ pc' = [pc EXCEPT ![i] = "finally"]
    /\ UNCHANGED <<executor_frame, results>>

\* The finally block is left without the kill.
finally_no_kill(i) ==
    /\ pc[i] = "finally"
    /\ pc' = [pc EXCEPT ![i] = "left"]
    /\ UNCHANGED <<executor_frame, process, pending, calls, results, log>>

\* Lines 333-335: a child that poll() finds still running is killed; then
\* the function returns or the pending exception goes up.
finally_kill(i) ==
    /\ pc[i] = "finally"
    /\ IF process[i] \in {"running", "terminating"}
          THEN /\ Called(i, <<"poll_none", "kill">>)
               /\ process' = [process EXCEPT ![i] = "killed"]
          ELSE /\ Called(i, IF process[i] = "none" THEN <<>> ELSE <<"poll">>)
               /\ UNCHANGED process
    /\ pc' = [pc EXCEPT ![i] = "left"]
    /\ UNCHANGED <<executor_frame, pending, results, log>>

NextExecutor ==
    \E i \in Inst :
        \/ popen(i)
        \/ child_ends(i)
        \/ wait_returns(i)
        \/ except_keyboard_interrupt(i)
        \/ except_exception(i)
        \/ finally_kill(i)

SpecExecutor == InitExecutor /\ [][NextExecutor]_vars

----------------------------------------------------------------------------
(* Vocabulary of the exit status and of the start of the process *)

\* Process i was started without a service command.
RunInvocation(i) == ~IsCommand(i)

\* load_json() did not find a required file.
ConfigError(i) == \E r \in Range(log[i]) : r.msg = "file_not_found"

GatePassed(i) == "ping_ok" \in Range(calls[i])
GateFailed(i) == "ping_fail" \in Range(calls[i])

\* The operator's interrupt arrived in main() outside a task subprocess.
InterruptedInMain(i) == pending[i] = "KeyboardInterrupt"

\* Some task of the run exited nonzero or failed with an exception, and the
\* operator's interrupt arrived during some task subprocess.
SomeFailed(i) == \E k \in TaskIds : Failed(i, k)
SomeInterrupted(i) == \E k \in TaskIds : InterruptedIn(i, k)

\* C11 as stated: a run exits nonzero only for a configuration error or a
\* failed gate, and a run that acquired the lock and passed the gate exits 0,
\* also when the operator interrupted it.
C11_AsStated ==
    \A i \in Inst :
        (RunInvocation(i) /\ Ended(i)) =>
            /\ exitCode[i] # 0 => (ConfigError(i) \/ GateFailed(i))
            /\ (Acquired(i) /\ GatePassed(i)) => exitCode[i] = 0

\* C11: Exit status of a run. A run ends with status 1 exactly when a
\* required file was missing or the gate failed; a run that acquired the lock
\* and passed the gate ends with 0 whatever its tasks returned, also when the
\* operator's interrupt arrived during a task subprocess; an interrupt that
\* arrived in main() outside a subprocess is the one other way to a nonzero
\* status.
C11_ExitStatus ==
    \A i \in Inst :
        (RunInvocation(i) /\ Ended(i)) =>
            /\ exitCode[i] = 1 <=> (ConfigError(i) \/ GateFailed(i))
            /\ exitCode[i] \notin {0, 1} <=> InterruptedInMain(i)
            /\ (Acquired(i) /\ GatePassed(i) /\ ~InterruptedInMain(i))
                   => exitCode[i] = 0

\* Runs that passed the gate ended with 0, one with a failed task and one
\* interrupted during a task.
C11_Witness ==
    /\ \E i \in Inst :
          Ended(i) /\ GatePassed(i) /\ SomeFailed(i) /\ exitCode[i] = 0
    /\ \E i \in Inst :
          Ended(i) /\ GatePassed(i) /\ SomeInterrupted(i) /\ exitCode[i] = 0

\* Process i is between its acquire_lock() and the end of its release_lock().
InRun(i) == pc[i] \in {"gate", "iterate", "child", "cleanup"}

\* C12: Service commands stay clear of the run. A process started with
\* --install, --uninstall or --status performs no operation on the lock
\* directory (no mkdir, no existence test, no rmdir), no connectivity probe
\* and no launch of a sync subprocess, whether the lock is free or held.
C12_ServiceCommandsAside ==
    \A i \in Inst :
        IsCommand(i) =>
            /\ calls[i] = <<>>
            /\ launches[i] = <<>>
            /\ results[i] = <<>>
            /\ LOCK_DIR # i

\* A service command has ended while another process, in a task, holds the
\* lock.
C12_Witness ==
    \E i, j \in Inst :
        /\ IsCommand(i) /\ Ended(i) /\ service_ops[i] # <<>>
        /\ LOCK_DIR = j /\ pc[j] = "child"

\* C13: Configuration error is fatal before any activity. A process that
\* does not find config.json or flags.json ends with status 1 in its first
\* step, having logged the missing file, and performs no operation on the
\* lock directory, no probe, no launch and no service command.
C13_ConfigErrorFirst ==
    \A i \in Inst :
        ~Loaded(i) =>
            /\ calls[i] = <<>>
            /\ launches[i] = <<>>
            /\ service_ops[i] = <<>>
            /\ LOCK_DIR # i
            /\ pc[i] \in {"main", "done"}
            /\ Ended(i) => (exitCode[i] = 1 /\ ConfigError(i))

\* The process without config.json has ended with status 1 while another
\* process, in a task, holds the lock.
C13_Witness ==
    \E i, j \in Inst :
        /\ missing_json[i] = "config.json" /\ Ended(i) /\ exitCode[i] = 1
        /\ LOCK_DIR = j /\ pc[j] = "child"

----------------------------------------------------------------------------
(* Vocabulary of the paths *)

IsAbsolute(p) == Len(p) >= 1 /\ p[1] = "/"
HasTilde(p) == Len(p) >= 1 /\ p[1] = "~"

\* q is the home-expanded absolute form of p: the home directory in place of
\* a leading "~", the working directory before a relative path, an absolute
\* path as it is; q itself needs no further expansion.
IsExpansionOf(q, p) ==
    /\ IsAbsolute(q)
    /\ HasTilde(p) => q = HOME \o SubSeq(p, 2, Len(p))
    /\ IsAbsolute(p) => q = p
    /\ (~HasTilde(p) /\ ~IsAbsolute(p) /\ p # <<>>) => q = CWD \o <<"/">> \o p

\* The launches of process i, by position.
LaunchIds(i) == 1..Len(launches[i])

\* C14: Remote-destination passthrough. In every launch the destination
\* argument is the configured dst itself when dst contains ":", and the
\* home-expanded absolute path of dst otherwise; the source argument is the
\* home-expanded absolute path of the configured src in both cases.
C14_RemotePassthrough ==
    \A i \in Inst : \A n \in LaunchIds(i) :
        LET cfg == Items[launches[i][n].task].cfg
            cmd == launches[i][n].cmd
        IN  /\ IsExpansionOf(cmd[3], cfg["src"])
            /\ ":" \in Range(cfg["dst"]) => cmd[4] = cfg["dst"]
            /\ ":" \notin Range(cfg["dst"]) => IsExpansionOf(cmd[4], cfg["dst"])

\* One run has launched a task with a remote destination, passed as it is,
\* and a task with a local one, passed expanded.
C14_Witness ==
    \E i \in Inst : \E n, m \in LaunchIds(i) :
        /\ ":" \in Range(Items[launches[i][n].task].cfg["dst"])
        /\ launches[i][n].cmd[4] = Items[launches[i][n].task].cfg["dst"]
        /\ ":" \notin Range(Items[launches[i][m].task].cfg["dst"])
        /\ launches[i][m].cmd[4] # Items[launches[i][m].task].cfg["dst"]

\* C16: Sequential, once, in order. A run has at most one sync subprocess
\* launched and not yet returned, and exactly one while it waits for a child;
\* its launches follow the order of the configuration; no task is launched
\* twice, and every enabled task the loop has passed was launched once.
C16_SequentialOnceInOrder ==
    \A i \in Inst :
        /\ Len(launches[i]) - Len(results[i]) = (IF pc[i] = "child" THEN 1 ELSE 0)
        /\ \A n, m \in LaunchIds(i) :
              n < m => launches[i][n].task < launches[i][m].task
        /\ \A k \in TaskIds :
              /\ LaunchCount(i, k) <= 1
              /\ (Enabled(k) /\ idx[i] > k) => LaunchCount(i, k) = 1

\* A run has ended after two launches, the first of which failed.
C16_Witness ==
    \E i \in Inst :
        /\ Ended(i) /\ Len(launches[i]) = 2 /\ Len(results[i]) = 2
        /\ results[i][1].return_code # 0

\* C19: Only the holder releases. A process whose acquire_lock() returned
\* False never executes release_lock() and never removes the directory; the
\* directory made by a process stays, and stays that process's, from its
\* acquire_lock() until its own release_lock(), however many processes
\* contend.
C19_OnlyHolderReleases ==
    /\ \A j \in Inst :
          Refused(j) => /\ ~ReleaseRun(j)
                        /\ Range(calls[j]) \cap {"rmdir", "rmdir_fail"} = {}
    /\ \A i \in Inst : InRun(i) => LOCK_DIR = i

\* Every other process has been refused and has ended while the holder,
\* about to release, still has its directory.
C19_Witness ==
    \E i \in Inst :
        /\ pc[i] = "cleanup" /\ LOCK_DIR = i
        /\ \A j \in Inst \ {i} : Refused(j) /\ Ended(j) /\ calls[j] = <<"mkdir_exists">>

----------------------------------------------------------------------------
(* Vocabulary of the filters, of the executor and of the service commands *)

FilterFrom == <<"--filter-from">>

\* The filter arguments for the four combinations of the two files, from
\* the files present now.
ExpectedFilters(mode, task) ==
    LET g == global_filter(mode)
        t == task_filter(mode, task)
    IN  CASE g \notin files /\ t \notin files -> <<>>
          [] g \in files /\ t \notin files -> <<FilterFrom, g>>
          [] g \notin files /\ t \in files -> <<FilterFrom, t>>
          [] g \in files /\ t \in files -> <<FilterFrom, g, FilterFrom, t>>

\* C15: Filter cascade, recomputed per call. Every call of
\* get_filter_flags(mode, task) returns, for the files present at that call,
\* nothing, the global filter, the specific filter, or the global filter
\* followed by the specific one, whatever earlier calls returned, and
\* leaves the filter files as they are.
C15_FilterCascade ==
    [][\A i \in Inst :
          filter_flags'[i] # filter_flags[i] =>
              /\ filter_flags'[i].flags =
                     ExpectedFilters(filter_flags'[i].mode, filter_flags'[i].task)
              /\ files' = files]_vars

\* Two calls for the same task, a filter file created or deleted in
\* between, have returned both filters and none.
C15_Witness ==
    \E i, j \in Inst :
        /\ filter_flags[i].mode # ""
        /\ filter_flags[i].mode = filter_flags[j].mode
        /\ filter_flags[i].task = filter_flags[j].task
        /\ Len(filter_flags[i].flags) = 4
        /\ filter_flags[j].flags = <<>>

\* Position of the first occurrence of op in the calls of process i, 0 when
\* there is none.
FirstCall(i, op) ==
    IF op \in Range(calls[i])
       THEN CHOOSE n \in 1..Len(calls[i]) :
               calls[i][n] = op /\ \A m \in 1..(n - 1) : calls[i][m] # op
       ELSE 0

\* C17: Child cleanup on cancellation. When control has left
\* run_subprocess_with_logging() the child is not running: it has exited or
\* was sent the kill. When an interrupt or another exception ended the call
\* while there was a child, termination was requested first, and the kill
\* was sent only to a child found still running after that.
C17_ChildCleanup ==
    \A i \in Inst :
        pc[i] = "left" =>
            /\ process[i] \in {"none", "exited", "killed"}
            /\ (pending[i] # "none" /\ process[i] # "none") =>
                   /\ "terminate" \in Range(calls[i])
                   /\ process[i] = "killed" =>
                          /\ FirstCall(i, "terminate") < FirstCall(i, "poll_none")
                          /\ FirstCall(i, "poll_none") < FirstCall(i, "kill")
            /\ pending[i] = "none" => "kill" \notin Range(calls[i])

\* One interrupted call has left after the kill, another after the child
\* exited on the termination request.
C17_Witness ==
    /\ \E i \in Inst :
          /\ pc[i] = "left" /\ pending[i] = "Interrupted by user"
          /\ process[i] = "killed"
    /\ \E i \in Inst :
          /\ pc[i] = "left" /\ pending[i] = "Interrupted by user"
          /\ process[i] = "exited" /\ calls[i] = <<"popen", "terminate", "poll">>

\* C18: Service-operation error surfacing. When the scheduler command of the
\* Windows install or uninstall exits nonzero, an error is logged and the
\* success of the operation is not.
C18_SchedulerFailureReported ==
    \A i \in Inst : \A n \in 1..Len(service_ops[i]) :
        (service_ops[i][n].cmd = "powershell" /\ service_ops[i][n].rc > 0) =>
            /\ \E r \in Range(log[i]) : r.level = "error"
            /\ \A r \in Range(log[i]) :
                  r.msg \notin {"task_created", "task_unregistered"}

\* The lock directory exists and no process is between its acquire_lock()
\* and its release_lock().
Stale == LOCK_DIR # 0 /\ \A i \in Inst : ~InRun(i)

\* C20: No staleness recovery. Once the lock directory is stale (its maker
\* was killed before release_lock(), or the rmdir failed), it stays: every
\* run that starts is refused by acquire_lock(), ends with status 0 and
\* launches nothing, and no step removes the directory or launches a task.
C20_NoStalenessRecovery ==
    [][Stale =>
          /\ LOCK_DIR' = LOCK_DIR
          /\ launches' = launches
          /\ \A j \in Inst :
                (pc'[j] # pc[j] /\ RunInvocation(j) /\ Loaded(j)) =>
                    /\ calls'[j] = <<"mkdir_exists">>
                    /\ pc'[j] = "done"
                    /\ exitCode'[j] = 0]_vars

\* The directory of a killed holder is still there after every other
\* process was refused.
C20_Witness ==
    \E i \in Inst :
        /\ pc[i] = "killed" /\ LOCK_DIR = i
        /\ \A j \in Inst \ {i} :
              Refused(j) /\ Ended(j) /\ exitCode[j] = 0 /\ launches[j] = <<>>

====
